---- MODULE Spec2Model ----
(***************************************************************************)
(* A model of lintrunner's linter selection (src/lint_config.rs, driven    *)
(* by do_main in src/main.rs) and of its Sapling adapter (src/sapling.rs). *)
(* Strings are sequences of one-character strings, so that substring       *)
(* search, splitting, trimming and prefix stripping are computed.          *)
(***************************************************************************)
EXTENDS Naturals, Sequences, FiniteSets

VARIABLES pc, config_file, opt_skip, opt_take, skipped_linters, taken_linters,
          root, output, relative_to, fs_files, ret

vars == <<pc, config_file, opt_skip, opt_take, skipped_linters, taken_linters,
          root, output, relative_to, fs_files, ret>>

-----------------------------------------------------------------------------
(* Bounds of the model. *)

MaxLinters == 2

MaxOptLen == 3

MaxLines == 2

MaxOut == 3

-----------------------------------------------------------------------------
(* Option<T> and Result<T>. *)

None == [some |-> FALSE]

Some(v) == [some |-> TRUE, val |-> v]

Ok(v) == [ok |-> TRUE, val |-> v]

Err(e) == [ok |-> FALSE, err |-> e]

SeqsUpTo(S, n) == UNION {[1..k -> S] : k \in 0..n}

Range(s) == {s[i] : i \in 1..Len(s)}

-----------------------------------------------------------------------------
(* String helpers of the standard library, on sequences of characters. *)

\* str::contains(&str)
Contains(s, sub) ==
    \E i \in 1..(Len(s) + 1) :
        /\ i + Len(sub) - 1 <= Len(s)
        /\ SubSeq(s, i, i + Len(sub) - 1) = sub

\* str::split(char): the pieces between separators; n separators give n+1 pieces
RECURSIVE Split(_, _)
Split(s, sep) ==
    IF \A i \in 1..Len(s) : s[i] # sep
    THEN <<s>>
    ELSE LET i == CHOOSE k \in 1..Len(s) :
                      /\ s[k] = sep
                      /\ \A j \in 1..(k - 1) : s[j] # sep
         IN  <<SubSeq(s, 1, i - 1)>> \o Split(SubSeq(s, i + 1, Len(s)), sep)

\* char::is_whitespace / the regex class \s, on the characters of the model
IsWhitespace(c) == c \in {" ", "\t", "\n", "\r"}

\* str::trim
RECURSIVE TrimStart(_)
TrimStart(s) ==
    IF Len(s) > 0 /\ IsWhitespace(s[1]) THEN TrimStart(Tail(s)) ELSE s

RECURSIVE TrimEnd(_)
TrimEnd(s) ==
    IF Len(s) > 0 /\ IsWhitespace(s[Len(s)])
    THEN TrimEnd(SubSeq(s, 1, Len(s) - 1))
    ELSE s

Trim(s) == TrimEnd(TrimStart(s))

-----------------------------------------------------------------------------
(* src/lint_config.rs *)

DRYRUN == <<"{", "{", "D", "R", "Y", "R", "U", "N", "}", "}">>

\* glob::Pattern::new: a pattern with three or more consecutive '*' or with
\* an unclosed '[' does not compile.
PatternNew(pattern_str) ==
    IF \/ \E i \in 3..Len(pattern_str) :
              pattern_str[i - 2] = "*" /\ pattern_str[i - 1] = "*" /\ pattern_str[i] = "*"
       \/ /\ \E i \in 1..Len(pattern_str) : pattern_str[i] = "["
          /\ \A i \in 1..Len(pattern_str) : pattern_str[i] # "]"
    THEN Err("Could not parse pattern from linter configuration.")
    ELSE Ok([glob |-> pattern_str])

\* patterns_from_strs with an empty list standing for "every file"
patterns_from_strs_default(pattern_strs) ==
    IF \E i \in 1..Len(pattern_strs) : ~PatternNew(pattern_strs[i]).ok
    THEN Err("Could not parse pattern from linter configuration.")
    ELSE IF pattern_strs = <<>> THEN Ok(<<[glob |-> <<"*", "*">>]>>)
    ELSE Ok([i \in 1..Len(pattern_strs) |-> PatternNew(pattern_strs[i]).val])

patterns_from_strs(pattern_strs) ==
    LET compiled == [i \in 1..Len(pattern_strs) |-> PatternNew(pattern_strs[i])] IN
    IF \E i \in 1..Len(pattern_strs) : ~compiled[i].ok
    THEN Err("Could not parse pattern from linter configuration.")
    ELSE Ok([i \in 1..Len(pattern_strs) |-> compiled[i].val])

\* LintRunnerConfig::new with `any` in place of `all`: a record is rejected
\* when one of its init_args tokens lacks the placeholder
LintRunnerConfigNew_any(file) ==
    IF file.kind = "unreadable" THEN Err("Failed to read config file")
    ELSE IF file.kind = "invalid" THEN Err("Config file had invalid schema")
    ELSE IF \E i \in 1..Len(file.linters) :
                /\ file.linters[i].init_args.some
                /\ \E k \in 1..Len(file.linters[i].init_args.val) :
                       ~Contains(file.linters[i].init_args.val[k], DRYRUN)
    THEN Err("defines init args but does not take a {{DRYRUN}} argument")
    ELSE Ok(file.linters)

\* LintRunnerConfig::new: read, parse, then validate every record's init_args
LintRunnerConfigNew(file) ==
    IF file.kind = "unreadable" THEN Err("Failed to read config file")
    ELSE IF file.kind = "invalid" THEN Err("Config file had invalid schema")
    ELSE IF \E i \in 1..Len(file.linters) :
                /\ file.linters[i].init_args.some
                /\ \A k \in 1..Len(file.linters[i].init_args.val) :
                       ~Contains(file.linters[i].init_args.val[k], DRYRUN)
    THEN Err("defines init args but does not take a {{DRYRUN}} argument")
    ELSE Ok(file.linters)

\* the loop of get_linters_from_config that builds a Linter from each record
LinterOf(lint_config) ==
    [name |-> lint_config.name,
     include_patterns |-> patterns_from_strs(lint_config.include_patterns).val,
     exclude_patterns |->
         IF lint_config.exclude_patterns.some
         THEN patterns_from_strs(lint_config.exclude_patterns.val).val
         ELSE <<>>,
     commands |-> lint_config.args,
     init_commands |-> lint_config.init_args,
     bypass_matched_file_filter |-> lint_config.bypass_matched_file_filter]

CompileFails(lint_config) ==
    \/ ~patterns_from_strs(lint_config.include_patterns).ok
    \/ /\ lint_config.exclude_patterns.some
       /\ ~patterns_from_strs(lint_config.exclude_patterns.val).ok

\* the take filter collecting in the reverse order
RECURSIVE RetainTaken_rev(_, _)
RetainTaken_rev(linters, names) ==
    IF linters = <<>> THEN <<>>
    ELSE IF Head(linters).name \in names
    THEN RetainTaken_rev(Tail(linters), names) \o <<Head(linters)>>
    ELSE RetainTaken_rev(Tail(linters), names)

\* linters.into_iter().filter(|l| taken_linters.contains(&l.name)).collect()
RECURSIVE RetainTaken(_, _)
RetainTaken(linters, names) ==
    IF linters = <<>> THEN <<>>
    ELSE IF Head(linters).name \in names
    THEN <<Head(linters)>> \o RetainTaken(Tail(linters), names)
    ELSE RetainTaken(Tail(linters), names)

\* the skip filter removing only the first record with a skipped name
RECURSIVE RemoveSkipped_first(_, _)
RemoveSkipped_first(linters, names) ==
    IF linters = <<>> THEN <<>>
    ELSE IF Head(linters).name \notin names
    THEN <<Head(linters)>> \o RemoveSkipped_first(Tail(linters), names)
    ELSE Tail(linters)

\* linters.into_iter().filter(|l| !skipped_linters.contains(&l.name)).collect()
RECURSIVE RemoveSkipped(_, _)
RemoveSkipped(linters, names) ==
    IF linters = <<>> THEN <<>>
    ELSE IF Head(linters).name \notin names
    THEN <<Head(linters)>> \o RemoveSkipped(Tail(linters), names)
    ELSE RemoveSkipped(Tail(linters), names)

\* Apply --take
ApplyTake(linters, taken) ==
    IF taken.some THEN RetainTaken(linters, taken.val) ELSE linters

\* Apply --skip
ApplySkip(linters, skipped) ==
    IF skipped.some THEN RemoveSkipped(linters, skipped.val) ELSE linters

\* the loop of get_linters_from_config over every record of the file
CompileLinters(lint_configs) ==
    IF \E i \in 1..Len(lint_configs) : CompileFails(lint_configs[i])
    THEN Err("Could not parse pattern from linter configuration.")
    ELSE Ok([i \in 1..Len(lint_configs) |-> LinterOf(lint_configs[i])])

\* get_linters_from_config rejecting a skip or take name of no linter
get_linters_from_config_strict(file, skipped, taken) ==
    LET lint_runner_config == LintRunnerConfigNew(file) IN
    IF ~lint_runner_config.ok THEN lint_runner_config
    ELSE LET linters == CompileLinters(lint_runner_config.val)
             known == {lint_runner_config.val[i].name :
                          i \in 1..Len(lint_runner_config.val)}
         IN  IF ~linters.ok THEN linters
             ELSE IF \/ (taken.some /\ ~(taken.val \subseteq known))
                     \/ (skipped.some /\ ~(skipped.val \subseteq known))
             THEN Err("unknown linter")
             ELSE Ok(ApplySkip(ApplyTake(linters.val, taken), skipped))

\* get_linters_from_config selecting by name first and compiling the
\* patterns of the selected records only
get_linters_from_config_lazy(file, skipped, taken) ==
    LET lint_runner_config == LintRunnerConfigNew(file) IN
    IF ~lint_runner_config.ok THEN lint_runner_config
    ELSE CompileLinters(ApplySkip(ApplyTake(lint_runner_config.val, taken), skipped))

\* get_linters_from_config: load and validate, compile every record's
\* patterns, then apply --take and --skip
get_linters_from_config(file, skipped, taken) ==
    LET lint_runner_config == LintRunnerConfigNew(file) IN
    IF ~lint_runner_config.ok THEN lint_runner_config
    ELSE LET linters == CompileLinters(lint_runner_config.val) IN
         IF ~linters.ok THEN linters
         ELSE Ok(ApplySkip(ApplyTake(linters.val, taken), skipped))

-----------------------------------------------------------------------------
(* src/main.rs *)

\* opt.skip / opt.take: split on ',' and collect into a HashSet
NamesOfOpt(o) ==
    IF o.some THEN Some(Range(Split(o.val, ","))) ELSE None

\* do_main: parse --skip and --take, then select the linters of the config
do_main(file, skip, take) ==
    get_linters_from_config(file, NamesOfOpt(skip), NamesOfOpt(take))

-----------------------------------------------------------------------------
(* src/sapling.rs *)

\* the regex class [A-Z?]
StatusClass ==
    {"A", "B", "C", "D", "E", "F", "G", "H", "I", "J", "K", "L", "M",
     "N", "O", "P", "Q", "R", "S", "T", "U", "V", "W", "X", "Y", "Z", "?"}

\* re.replace(&line, "") with re = ^[A-Z?]\s+
StripStatus(line) ==
    IF Len(line) >= 2 /\ line[1] \in StatusClass /\ IsWhitespace(line[2])
    THEN TrimStart(Tail(line))
    ELSE line

\* line.starts_with('D')
StartsWithD(line) == Len(line) > 0 /\ line[1] = "D"

\* commit_files without the filter on deleted files
CommitFiles_keepDeleted(commit_files_str) ==
    LET lines == Split(commit_files_str, "\n") IN
    {StripStatus(lines[i]) : i \in 1..Len(lines)} \ {<<>>}

\* the split / filter / map / filter chain that builds commit_files
CommitFiles(commit_files_str) ==
    LET lines == Split(commit_files_str, "\n") IN
    {StripStatus(lines[i]) : i \in {k \in 1..Len(lines) : ~StartsWithD(lines[k])}}
        \ {<<>>}

\* Path::join: an absolute right-hand side replaces the left-hand side
PathJoin(base, f) ==
    IF Len(f) > 0 /\ f[1] = "/" THEN f ELSE base \o <<"/">> \o f

\* path::AbsPath::try_from: the path must exist
AbsPathTryFrom(p, files) ==
    IF p \in files THEN Ok(p) ELSE Err("no such path")

\* log_utils::ensure_output / anyhow::ensure!(output.status.success())
EnsureOutput(out) ==
    IF out.success THEN Ok(TRUE) ELSE Err("command failed")

\* Repo::new
RepoNew(out, files) ==
    IF ~out.spawned THEN Err("could not run sl")
    ELSE IF ~out.success THEN Err("Failed to determine Sapling root")
    ELSE IF ~out.utf8 THEN Err("invalid utf-8")
    ELSE AbsPathTryFrom(Trim(out.stdout), files)

\* Repo::get_head
get_head(out) ==
    IF ~out.spawned THEN Err("could not run sl")
    ELSE IF ~EnsureOutput(out).ok THEN EnsureOutput(out)
    ELSE IF ~out.utf8 THEN Err("invalid utf-8")
    ELSE Ok(Trim(out.stdout))

\* Repo::get_merge_base_with
get_merge_base_with(out) ==
    IF ~out.spawned THEN Err("could not run sl")
    ELSE IF ~out.success
    THEN Err("Failed to get most recent common ancestor")
    ELSE IF ~out.utf8 THEN Err("invalid utf-8")
    ELSE Ok(Trim(out.stdout))

\* get_changed_files dropping the paths that do not resolve
get_changed_files_partial(repo_root, out, files) ==
    IF ~out.spawned THEN Err("could not run sl")
    ELSE IF ~EnsureOutput(out).ok THEN EnsureOutput(out)
    ELSE IF ~out.utf8 THEN Err("invalid utf-8")
    ELSE LET commit_files == CommitFiles(out.stdout)
             joined == {PathJoin(repo_root, f) : f \in commit_files}
         IN  Ok({AbsPathTryFrom(p, files).val :
                    p \in {q \in joined : AbsPathTryFrom(q, files).ok}})

\* Repo::get_changed_files
get_changed_files(repo_root, out, files) ==
    IF ~out.spawned THEN Err("could not run sl")
    ELSE IF ~EnsureOutput(out).ok THEN EnsureOutput(out)
    ELSE IF ~out.utf8 THEN Err("invalid utf-8")
    ELSE LET commit_files == CommitFiles(out.stdout)
             joined == {PathJoin(repo_root, f) : f \in commit_files}
         IN  IF \E p \in joined : ~AbsPathTryFrom(p, files).ok
             THEN Err("Failed to find file while gathering files to lint")
             ELSE Ok({AbsPathTryFrom(p, files).val : p \in joined})

-----------------------------------------------------------------------------
(* The inputs the model draws from. *)

NameA == <<"a">>

NameB == <<"b">>

NameU == <<"u">>

TokEmbedded == <<"x">> \o DRYRUN \o <<"y">>

TokNear == <<"{", "D", "R", "Y", "R", "U", "N", "}", "}">>

TokPlain == <<"-", "v">>

InitArgsChoices ==
    {<<>>, <<DRYRUN>>, <<TokNear>>, <<TokPlain, TokEmbedded>>, <<TokNear, TokPlain>>}

PatGood == <<"*", ".", "p", "y">>

PatStars == <<"*", "*", "*">>

PatBracket == <<"[", "a">>

BaseConfig(n) ==
    [name |-> n, include_patterns |-> <<PatGood>>, exclude_patterns |-> None,
     args |-> <<"lint">>, init_args |-> None,
     bypass_matched_file_filter |-> FALSE]

\* records of the configuration file: the base record with one field varied
LintConfigs ==
    {BaseConfig(NameA), BaseConfig(NameB),
     [BaseConfig(NameB) EXCEPT !.init_args = Some(<<TokNear>>)]}
    \cup {[BaseConfig(NameA) EXCEPT !.init_args = Some(a)] : a \in InitArgsChoices}
    \cup {[BaseConfig(NameA) EXCEPT !.include_patterns = p] :
             p \in {<<>>, <<PatStars>>, <<PatGood, PatBracket>>}}
    \cup {[BaseConfig(NameA) EXCEPT !.exclude_patterns = Some(p)] :
             p \in {<<PatBracket>>}}

ConfigFiles ==
    {[kind |-> "unreadable"], [kind |-> "invalid"]}
    \cup {[kind |-> "ok", linters |-> l] : l \in SeqsUpTo(LintConfigs, MaxLinters)}

\* the configuration files the binary is run on
MainConfigFiles ==
    {[kind |-> "unreadable"]}
    \cup {[kind |-> "ok", linters |-> l] :
             l \in {<<BaseConfig(NameA), BaseConfig(NameB)>>,
                    <<BaseConfig(NameB), BaseConfig(NameA), BaseConfig(NameB)>>}}

NameSets == {None} \cup {Some(S) : S \in SUBSET {NameA, NameB, NameU}}

OptStrings == {None} \cup {Some(o) : o \in SeqsUpTo({"a", "b", ","}, MaxOptLen)}

RootPath == <<"/", "r">>

RootTexts == {RootPath \o <<"\n">>, RootPath, <<"\n">>}

\* lines of `sl status`
StatusLines ==
    {<<"M", " ", "a">>, <<"D", " ", "a">>, <<"?", " ", "b">>, <<"D", " ", "b">>,
     <<"A", "\t", " ", "b">>, <<"m", " ", "a">>, <<"!", " ", "b">>, <<>>}

RECURSIVE JoinLines(_)
JoinLines(lines) ==
    IF lines = <<>> THEN <<>>
    ELSE IF Len(lines) = 1 THEN lines[1]
    ELSE lines[1] \o <<"\n">> \o JoinLines(Tail(lines))

StatusTexts == {JoinLines(l) : l \in SeqsUpTo(StatusLines, MaxLines)}

RevTexts == SeqsUpTo({"c", " ", "\n"}, MaxOut)

WorkingFiles ==
    {RootPath \o <<"/", "a">>, RootPath \o <<"/", "b">>,
     RootPath \o <<"/", "m", " ", "a">>}

NoOutput == [spawned |-> FALSE, success |-> FALSE, utf8 |-> FALSE, stdout |-> <<>>]

Outputs(texts) ==
    {NoOutput}
    \cup [spawned : {TRUE}, success : BOOLEAN, utf8 : BOOLEAN, stdout : texts]

-----------------------------------------------------------------------------
(* The state machine: one process run, either the lintrunner binary, a     *)
(* direct call of get_linters_from_config, or a Sapling repository handle  *)
(* that is opened and then queried.                                        *)

NoFile == [kind |-> "none"]

NotRun == Err("not run")

Init ==
    /\ pc = "start"
    /\ config_file = NoFile
    /\ opt_skip = None
    /\ opt_take = None
    /\ skipped_linters = None
    /\ taken_linters = None
    /\ root = <<>>
    /\ output = NoOutput
    /\ relative_to = None
    /\ fs_files = {}
    /\ ret = NotRun

DoMain ==
    /\ pc = "start"
    /\ \E file \in MainConfigFiles,
          skip \in OptStrings, take \in OptStrings :
          /\ config_file' = file
          /\ opt_skip' = skip
          /\ opt_take' = take
          /\ skipped_linters' = NamesOfOpt(skip)
          /\ taken_linters' = NamesOfOpt(take)
          /\ ret' = do_main(file, skip, take)
    /\ pc' = "do_main"
    /\ UNCHANGED <<root, output, relative_to, fs_files>>

GetLintersFromConfig ==
    /\ pc = "start"
    /\ \E file \in ConfigFiles,
          skipped \in NameSets, taken \in NameSets :
          /\ config_file' = file
          /\ skipped_linters' = skipped
          /\ taken_linters' = taken
          /\ ret' = get_linters_from_config(file, skipped, taken)
    /\ pc' = "get_linters"
    /\ UNCHANGED <<opt_skip, opt_take, root, output, relative_to, fs_files>>

New ==
    /\ pc = "start"
    /\ \E out \in Outputs(RootTexts), files \in {{}, {RootPath}} :
          /\ output' = out
          /\ fs_files' = files
          /\ ret' = RepoNew(out, files)
          /\ root' = IF RepoNew(out, files).ok THEN RepoNew(out, files).val ELSE root
          /\ pc' = IF RepoNew(out, files).ok THEN "repo" ELSE "no_repo"
    /\ UNCHANGED <<config_file, opt_skip, opt_take, skipped_linters,
                   taken_linters, relative_to>>

GetHead ==
    /\ pc = "repo"
    /\ \E out \in Outputs(RevTexts) :
          /\ output' = out
          /\ ret' = get_head(out)
    /\ pc' = "get_head"
    /\ UNCHANGED <<config_file, opt_skip, opt_take, skipped_linters,
                   taken_linters, root, relative_to, fs_files>>

GetMergeBaseWith ==
    /\ pc = "repo"
    /\ \E out \in Outputs(RevTexts) :
          /\ output' = out
          /\ ret' = get_merge_base_with(out)
    /\ pc' = "get_merge_base_with"
    /\ UNCHANGED <<config_file, opt_skip, opt_take, skipped_linters,
                   taken_linters, root, relative_to, fs_files>>

GetChangedFiles ==
    /\ pc = "repo"
    /\ \E out \in Outputs(StatusTexts), files \in SUBSET WorkingFiles,
          rev \in {None, Some(<<"c">>)} :
          /\ output' = out
          /\ relative_to' = rev
          /\ fs_files' = {RootPath} \cup files
          /\ ret' = get_changed_files(root, out, {RootPath} \cup files)
    /\ pc' = "get_changed_files"
    /\ UNCHANGED <<config_file, opt_skip, opt_take, skipped_linters,
                   taken_linters, root>>

Next ==
    \/ DoMain
    \/ GetLintersFromConfig
    \/ New
    \/ GetHead
    \/ GetMergeBaseWith
    \/ GetChangedFiles

Spec == Init /\ [][Next]_vars

-----------------------------------------------------------------------------
(* Properties of linter selection. *)

Selected == pc \in {"do_main", "get_linters"}

Parsed == Selected /\ config_file.kind = "ok"

\* the token holds {{DRYRUN}} at some offset
HasPlaceholder(tok) ==
    \E n \in 0..Len(tok) :
        /\ n + Len(DRYRUN) <= Len(tok)
        /\ \A k \in 1..Len(DRYRUN) : tok[n + k] = DRYRUN[k]

\* init_args is present and none of its tokens holds the placeholder
LacksDryRun(rec) ==
    /\ rec.init_args.some
    /\ ~\E k \in 1..Len(rec.init_args.val) : HasPlaceholder(rec.init_args.val[k])

BadPattern(rec) ==
    \/ \E k \in 1..Len(rec.include_patterns) : ~PatternNew(rec.include_patterns[k]).ok
    \/ /\ rec.exclude_patterns.some
       /\ \E k \in 1..Len(rec.exclude_patterns.val) :
              ~PatternNew(rec.exclude_patterns.val[k]).ok

ConfiguredNames == {config_file.linters[i].name : i \in 1..Len(config_file.linters)}

\* the records of the file whose name passes take and skip, in file order
ExpectedRecords ==
    LET Wanted(rec) ==
            /\ taken_linters.some => rec.name \in taken_linters.val
            /\ skipped_linters.some => rec.name \notin skipped_linters.val
    IN  SelectSeq(config_file.linters, Wanted)

\* the selection is the linters of the expected records, field by field
SelectionIsExpected ==
    /\ Len(ret.val) = Len(ExpectedRecords)
    /\ \A i \in 1..Len(ExpectedRecords) :
          /\ ret.val[i].name = ExpectedRecords[i].name
          /\ ret.val[i].commands = ExpectedRecords[i].args
          /\ ret.val[i].init_commands = ExpectedRecords[i].init_args
          /\ Len(ret.val[i].include_patterns) = Len(ExpectedRecords[i].include_patterns)

\* C1: a structurally valid configuration fails to load when some record has
\* init_args present with no token holding {{DRYRUN}} (an empty init_args
\* included), and passes this validation otherwise: the load then fails only
\* on a pattern that does not compile.
C1_DryRunValidation ==
    Parsed =>
        /\ (\E i \in 1..Len(config_file.linters) : LacksDryRun(config_file.linters[i]))
               => (~ret.ok /\ ~LintRunnerConfigNew(config_file).ok)
        /\ (\A i \in 1..Len(config_file.linters) : ~LacksDryRun(config_file.linters[i]))
               => /\ LintRunnerConfigNew(config_file).ok
                  /\ ret.ok <=> \A i \in 1..Len(config_file.linters) :
                                    ~BadPattern(config_file.linters[i])

\* a file whose first record has the placeholder in its second token and
\* whose second record has an empty init_args: the load fails
C1_Witness ==
    /\ Parsed
    /\ Len(config_file.linters) = 2
    /\ config_file.linters[1].init_args = Some(<<TokPlain, TokEmbedded>>)
    /\ config_file.linters[2].init_args = Some(<<>>)
    /\ ~ret.ok

\* C2: with skip = {N} and no take the selection is the configured list
\* without the records named N, in order; with take = {N} and no skip it is
\* exactly the records named N, empty when no record has that name.
C2_SingleNameSelection ==
    (Parsed /\ ret.ok) =>
        /\ (skipped_linters.some /\ ~taken_linters.some
                /\ Cardinality(skipped_linters.val) = 1)
               => /\ SelectionIsExpected
                  /\ \A i \in 1..Len(ret.val) : ret.val[i].name \notin skipped_linters.val
                  /\ Len(ret.val) = Cardinality({i \in 1..Len(config_file.linters) :
                         config_file.linters[i].name \notin skipped_linters.val})
        /\ (taken_linters.some /\ ~skipped_linters.some
                /\ Cardinality(taken_linters.val) = 1)
               => /\ SelectionIsExpected
                  /\ \A i \in 1..Len(ret.val) : ret.val[i].name \in taken_linters.val
                  /\ Len(ret.val) = Cardinality({i \in 1..Len(config_file.linters) :
                         config_file.linters[i].name \in taken_linters.val})
                  /\ (taken_linters.val \cap ConfiguredNames = {}) => ret.val = <<>>

\* the binary run with --skip b on the file b, a, b: only a is left
C2_Witness ==
    /\ pc = "do_main"
    /\ ret.ok
    /\ opt_skip = Some(<<"b">>)
    /\ opt_take = None
    /\ Len(config_file.linters) = 3
    /\ Len(ret.val) = 1
    /\ ret.val[1].name = NameA

\* C3: with take and skip both supplied the selection is the subsequence of
\* the configured list whose names are in take and not in skip, in file
\* order; a name in both sets is not selected.
C3_TakeThenSkip ==
    (Parsed /\ ret.ok /\ taken_linters.some /\ skipped_linters.some) =>
        /\ SelectionIsExpected
        /\ \A i \in 1..Len(ret.val) :
               ret.val[i].name \in taken_linters.val \ skipped_linters.val

\* take = {a, b} in the order "b,a" on the file a, b with an unrelated skip:
\* the selection is a, b
C3_Witness ==
    /\ pc = "do_main"
    /\ ret.ok
    /\ opt_take = Some(<<"b", ",", "a">>)
    /\ skipped_linters.some
    /\ Len(ret.val) = 2
    /\ ret.val[1].name = NameA
    /\ ret.val[2].name = NameB

\* names that no configured linter has
UnknownNames == {NameB, NameU, <<>>} \ ConfiguredNames

AddTo(names, U) == Some(names.val \cup {U})

\* C4: a name U of no configured linter never causes an error, and adding U
\* to a supplied skip set or take set (on the command line: appending ",U"
\* to the option) leaves the selection unchanged.
C4_UnknownNamesIgnored ==
    Parsed =>
        /\ ret.ok <=> get_linters_from_config(config_file, None, None).ok
        /\ \A U \in UnknownNames :
              /\ skipped_linters.some =>
                    get_linters_from_config(config_file,
                        AddTo(skipped_linters, U), taken_linters) = ret
              /\ taken_linters.some =>
                    get_linters_from_config(config_file,
                        skipped_linters, AddTo(taken_linters, U)) = ret
        /\ (pc = "do_main" /\ opt_skip.some) =>
               do_main(config_file, Some(opt_skip.val \o <<",", "u">>), opt_take) = ret
        /\ (pc = "do_main" /\ opt_take.some) =>
               do_main(config_file, opt_skip, Some(opt_take.val \o <<",", "u">>)) = ret

\* the binary run with --skip aa on the file a, b: aa is unknown, the
\* selection is a, b
C4_Witness ==
    /\ pc = "do_main"
    /\ Parsed
    /\ opt_skip = Some(<<"a", "a">>)
    /\ opt_take = None
    /\ skipped_linters = Some({<<"a", "a">>})
    /\ Len(config_file.linters) = 2
    /\ ret.ok
    /\ Len(ret.val) = 2

\* C9 as claimed: no returned linter has an empty include_patterns
C9_IncludePatternsNonEmpty ==
    (Selected /\ ret.ok) =>
        \A i \in 1..Len(ret.val) : ret.val[i].include_patterns # <<>>

\* C9 as amended: every returned linter has one compiled pattern per string
\* of its record's include_patterns, in order, and a record with an empty
\* include_patterns list is accepted.
C9_IncludePatternsAsConfigured ==
    (Parsed /\ ret.ok) =>
        /\ Len(ret.val) = Len(ExpectedRecords)
        /\ \A i \in 1..Len(ExpectedRecords) :
              /\ Len(ret.val[i].include_patterns)
                     = Len(ExpectedRecords[i].include_patterns)
              /\ \A k \in 1..Len(ExpectedRecords[i].include_patterns) :
                     ret.val[i].include_patterns[k].glob
                         = ExpectedRecords[i].include_patterns[k]

\* a returned selection holding a linter without include patterns next to
\* one with a pattern
C9_Witness ==
    /\ Parsed
    /\ ret.ok
    /\ \E i, j \in 1..Len(ret.val) :
          /\ ret.val[i].include_patterns = <<>>
          /\ ret.val[j].include_patterns # <<>>

\* C10: a record with a pattern that does not compile, or with init_args
\* lacking {{DRYRUN}}, fails the whole call whether or not skip or take
\* would have removed that record.
C10_ValidationBeforeSelection ==
    (Parsed /\ \E i \in 1..Len(config_file.linters) :
                   \/ BadPattern(config_file.linters[i])
                   \/ LacksDryRun(config_file.linters[i]))
        => ~ret.ok

\* the record a has a pattern that does not compile and a is skipped, b is
\* taken: the call fails all the same
C10_Witness ==
    /\ Parsed
    /\ Len(config_file.linters) = 2
    /\ config_file.linters[1].name = NameA
    /\ BadPattern(config_file.linters[1])
    /\ config_file.linters[2] = BaseConfig(NameB)
    /\ skipped_linters = Some({NameA})
    /\ taken_linters = Some({NameB})
    /\ ~ret.ok

-----------------------------------------------------------------------------
(* Properties of the Sapling adapter. *)

Ran == output.spawned /\ output.success /\ output.utf8

\* the lines of the status output; a final newline ends the last line
OutputLines ==
    LET pieces == Split(output.stdout, "\n") IN
    IF pieces[Len(pieces)] = <<>> THEN SubSeq(pieces, 1, Len(pieces) - 1) ELSE pieces

\* what follows the status character and the whitespace after it
PathOn(line) ==
    LET start == CHOOSE k \in 3..(Len(line) + 1) :
                     /\ \A j \in 2..(k - 1) : IsWhitespace(line[j])
                     /\ k <= Len(line) => ~IsWhitespace(line[k])
    IN  SubSeq(line, start, Len(line))

\* <status letter or ?><whitespace><relative path>
WellFormed(line) ==
    /\ Len(line) >= 3
    /\ line[1] \in StatusClass
    /\ IsWhitespace(line[2])
    /\ PathOn(line) # <<>>
    /\ PathOn(line)[1] # "/"

UnderRoot(path) == root \o <<"/">> \o path

\* C5: on a status output of well-formed lines, a returned change set is
\* exactly the paths of the lines whose status is not D, stripped of the
\* status prefix and joined to the repository root.
C5_ChangedFilesParsed ==
    (pc = "get_changed_files" /\ ret.ok
         /\ \A i \in 1..Len(OutputLines) : WellFormed(OutputLines[i]))
        => ret.val = {UnderRoot(PathOn(OutputLines[i])) :
                         i \in {k \in 1..Len(OutputLines) : OutputLines[k][1] # "D"}}

\* the lines "M a" and "D b": the change set is root/a alone, although
\* root/b exists
C5_Witness ==
    /\ pc = "get_changed_files"
    /\ ret.ok
    /\ OutputLines = <<<<"M", " ", "a">>, <<"D", " ", "b">>>>
    /\ UnderRoot(<<"b">>) \in fs_files
    /\ ret.val = {UnderRoot(<<"a">>)}

\* C6 as claimed: get_merge_base_with never succeeds with an empty identifier
C6_MergeBaseNonEmpty ==
    (pc = "get_merge_base_with" /\ ret.ok) => ret.val # <<>>

\* C7 as claimed: the path on a line whose status character is not an
\* uppercase letter or ? is in the returned change set
C7_UnrecognizedStatusKept ==
    (pc = "get_changed_files" /\ Ran) =>
        \A i \in 1..Len(OutputLines) :
            (/\ Len(OutputLines[i]) >= 3
             /\ OutputLines[i][1] \notin StatusClass
             /\ IsWhitespace(OutputLines[i][2])
             /\ UnderRoot(PathOn(OutputLines[i])) \in fs_files)
                => (ret.ok /\ UnderRoot(PathOn(OutputLines[i])) \in ret.val)

\* the paths get_changed_files keeps, joined to the root
KeptPaths == {PathJoin(root, f) : f \in CommitFiles(output.stdout)}

\* C8: get_changed_files returns a change set only when the subprocess ran,
\* exited with zero, printed valid UTF-8 and every kept path exists; it then
\* returns all of them, and otherwise an error.
C8_AllOrNothing ==
    pc = "get_changed_files" =>
        /\ ret.ok <=> (Ran /\ KeptPaths \subseteq fs_files)
        /\ ret.ok => /\ ret.val = KeptPaths
                     /\ \A p \in ret.val : p \in fs_files /\ p[1] = "/"

\* two kept paths of which one exists: an error, not the one path
C8_Witness ==
    /\ pc = "get_changed_files"
    /\ Ran
    /\ Cardinality(KeptPaths) = 2
    /\ Cardinality(KeptPaths \cap fs_files) = 1
    /\ ~ret.ok

====
